---- MODULE Spec2Model ----
(***************************************************************************)
(* A model of the surrealx extension layer: the event registry with its    *)
(* reader-writer lock and wildcard dispatch (events.rs), the function      *)
(* registry with its copy-on-write sharing (functions.rs), and the         *)
(* module / orchestrator composition step (module.rs, server.rs).          *)
(***************************************************************************)
EXTENDS Integers, Sequences, FiniteSets, TLC

(***************************************************************************)
(* Bounds of the model.                                                    *)
(***************************************************************************)
MaxRegs == 2        \* registrations started on one EventRegistry
MaxEmits == 2       \* emit calls started on one EventRegistry
MaxModules == 2     \* modules added with with_module
MaxDecls == 3       \* with_function / with_listener calls over all modules
MaxPost == 1        \* registrations made on the built snapshot
MaxOwners == 2      \* live FunctionRegistry handles sharing one map
MaxCacheOps == 3    \* get / exists / set / delete / clear calls started on one provider
MaxClock == 1       \* seconds the clock advances
I64Max == 7         \* i64::MAX, scaled down; i64 is -(I64Max+1)..I64Max

(***************************************************************************)
(* Input domains.                                                          *)
(***************************************************************************)
Tasks == {"t1", "t2"}
Listeners == {"l1", "l2"}
\* Option<String>: <<>> is None, <<id>> is Some(id)
Events == {[table |-> "orders", record_id |-> <<"123">>],
           [table |-> "orders", record_id |-> <<>>],
           [table |-> "users", record_id |-> <<>>]}
Patterns == {"orders:123", "orders:*", "*"}
\* what a listener registers when its on_event calls register
NestedPatterns == {"orders:*"}
\* the error a listener's on_event returns when it fails
ErrorOf(l) == IF l = "l1" THEN "Event" ELSE "Other"

\* the name given to the i-th Module::new
ModuleName(i) == IF i = 1 THEN "business" ELSE "audit"
\* patterns registered on the built snapshot's event registry
PostPatterns == {"orders:*"}
\* function names a module declares
FnNames == {"f", "g", "ext::f"}
\* names registered directly on a FunctionRegistry
DirectNames == {"ext::f", "h"}

\* u64::MAX: the unsigned type has the width of the signed one
U64Max == 2 * I64Max + 1

Keys == {"k1", "k2"}
\* the value each task passes to set
ValueOf(t) == IF t = "t1" THEN "v1" ELSE "v2"
\* Option<u64> arguments of set: None is <<>>, Some(n) is <<n>>
Ttls == {<<>>, <<1>>, <<I64Max>>, <<U64Max>>}

NoSet == [key |-> "", value |-> "", ttl |-> <<>>, at |-> 0, expires_at |-> <<>>]
Unset == [state |-> "unset", value |-> "", ttl |-> <<>>, at |-> 0]
NoGet == [key |-> "", t1 |-> 0, t2 |-> 0, kept |-> <<>>,
          seen |-> <<>>, wr |-> Unset, val |-> <<>>, done |-> FALSE]

NoEvent == [table |-> "", record_id |-> <<>>]
NoModule == [name |-> "", functions |-> <<>>, listeners |-> <<>>]
NoReq == [pattern |-> "", listener |-> ""]
Ok == [ok |-> TRUE, err |-> ""]
Err(e) == [ok |-> FALSE, err |-> e]
Pending == [ok |-> FALSE, err |-> "pending"]

VARIABLES
    listeners,   \* EventRegistry.listeners: pattern -> sequence of listeners
    waitq,       \* tasks queued on the RwLock, in arrival order
    readers,     \* tasks holding a read guard of the RwLock
    pc,          \* where each task is
    event,       \* the event of the task's current emit
    req,         \* the (pattern, listener) of the task's pending register
    matched,     \* emit's matched_listeners
    idx,         \* emit's position in matched_listeners (1-based)
    calls,       \* listeners whose on_event this emit has called, in order
    outcomes,    \* what each of those calls returned
    result,      \* what the task's last emit returned
    nregs,       \* registrations started
    nemits,      \* emits started
    asked,       \* how many register calls were made for each (pattern, listener)
    cur,         \* the Module being composed by the with_* chain
    modules,     \* SurrealX.modules
    functions,   \* FunctionRegistry.functions: name -> handler
    owners,      \* strong count of the Arc holding that map
    phase,       \* "compose", "built" (build has just returned), "running"
                 \* (the snapshot has been used since) or "panicked"
    nextArc,     \* the next Arc::new allocation
    regOutcome,  \* how the last FunctionRegistry::register ended
    history,     \* the (name, handler) pairs inserted so far, in order
    npost,       \* registrations made on the built snapshot
    cache,       \* MemoryCacheProvider.cache: key -> CacheEntry
    now,         \* what chrono::Utc::now().timestamp() returns
    cpc,         \* where each task is in its cache call
    creq,        \* the task's set between computing expires_at and inserting
    got,         \* the task's current or last get / exists, and what it saw
    written,     \* per key: the last set, delete or clear that took effect
    nops         \* cache calls started

evLocal == <<waitq, readers, pc, event, req, matched, idx, calls, outcomes,
             result, nregs, nemits, asked>>

buildVars == <<cur, modules, functions, owners, phase, nextArc, regOutcome,
               history, npost>>

cacheVars == <<cache, now, cpc, creq, got, written, nops>>

vars == <<listeners, evLocal, buildVars, cacheVars>>

(***************************************************************************)
(* events.rs                                                               *)
(***************************************************************************)

\* Event::pattern
EventPattern(e) ==
    IF e.record_id # <<>>
    THEN e.table \o ":" \o e.record_id[1]
    ELSE e.table \o ":*"

\* format!("{}:*", event.table)
WildcardPattern(e) == e.table \o ":*"

\* a push that drops the listeners the pattern already had
EntryPushReplace(m, p, l) ==
    IF p \in DOMAIN m
    THEN [m EXCEPT ![p] = <<l>>]
    ELSE m @@ (p :> <<l>>)

\* a push that puts the listener at the front of the pattern's list
EntryPushFront(m, p, l) ==
    IF p \in DOMAIN m
    THEN [m EXCEPT ![p] = <<l>> \o @]
    ELSE m @@ (p :> <<l>>)

\* listeners.entry(pattern).or_insert_with(Vec::new).push(listener)
EntryPush(m, p, l) ==
    IF p \in DOMAIN m
    THEN [m EXCEPT ![p] = Append(@, l)]
    ELSE m @@ (p :> <<l>>)

\* listeners.get(&pattern) followed by matched_listeners.extend(..)
Extend(acc, m, p) == IF p \in DOMAIN m THEN acc \o m[p] ELSE acc

\* three passes and a fourth over the pattern of one fixed record
GatherFixedRecordToo(m, e) ==
    Extend(Extend(Extend(Extend(<<>>, m, EventPattern(e)), m, WildcardPattern(e)),
                  m, "*"), m, "orders:123")

\* three passes that start with the global wildcard
GatherGlobalFirst(m, e) ==
    Extend(Extend(Extend(<<>>, m, "*"), m, WildcardPattern(e)), m, EventPattern(e))

\* the three passes of emit
Gather(m, e) ==
    Extend(Extend(Extend(<<>>, m, EventPattern(e)), m, WildcardPattern(e)), m, "*")

\* a loop that goes on to the next listener whatever on_event returned
AbortsNever(outcome) == FALSE

\* the `?` after listener.on_event(..).await: an Err leaves the loop
Aborts(outcome) == ~outcome.ok

\* EventRegistry::patterns
PatternsOf(m) == DOMAIN m

QueueEntry(t, k) == [task |-> t, kind |-> k]

Init ==
    /\ listeners = <<>>
    /\ waitq = <<>>
    /\ readers = {}
    /\ pc = [t \in Tasks |-> "idle"]
    /\ event = [t \in Tasks |-> NoEvent]
    /\ req = [t \in Tasks |-> NoReq]
    /\ matched = [t \in Tasks |-> <<>>]
    /\ idx = [t \in Tasks |-> 0]
    /\ calls = [t \in Tasks |-> <<>>]
    /\ outcomes = [t \in Tasks |-> <<>>]
    /\ result = [t \in Tasks |-> Pending]
    /\ nregs = 0
    /\ nemits = 0
    /\ asked = [pl \in Patterns \X Listeners |-> 0]
    /\ cur = NoModule
    /\ modules = <<>>
    /\ functions = <<>>
    /\ owners = 1
    /\ phase = "compose"
    /\ nextArc = 1
    /\ regOutcome = "none"
    /\ history = <<>>
    /\ npost = 0
    /\ cache = <<>>
    /\ now = 0
    /\ cpc = [t \in Tasks |-> "idle"]
    /\ creq = [t \in Tasks |-> NoSet]
    /\ got = [t \in Tasks |-> NoGet]
    /\ written = [k \in Keys |-> Unset]
    /\ nops = 0

\* register / register_arc: self.listeners.write().await, uncontended
RegisterNow(t, p, l) ==
    /\ pc[t] = "idle"
    /\ nregs < MaxRegs
    /\ waitq = <<>> /\ readers = {}
    /\ listeners' = EntryPush(listeners, p, l)
    /\ nregs' = nregs + 1
    /\ asked' = [asked EXCEPT ![<<p, l>>] = @ + 1]
    /\ UNCHANGED <<waitq, readers, pc, event, req, matched, idx, calls,
                   outcomes, result, nemits>>
    /\ UNCHANGED <<buildVars, cacheVars>>

\* register / register_arc: self.listeners.write().await has to wait
RegisterWait(t, p, l) ==
    /\ pc[t] = "idle"
    /\ nregs < MaxRegs
    /\ ~(waitq = <<>> /\ readers = {})
    /\ waitq' = Append(waitq, QueueEntry(t, "write"))
    /\ req' = [req EXCEPT ![t] = [pattern |-> p, listener |-> l]]
    /\ pc' = [pc EXCEPT ![t] = "reg_wait"]
    /\ nregs' = nregs + 1
    /\ asked' = [asked EXCEPT ![<<p, l>>] = @ + 1]
    /\ UNCHANGED <<listeners, readers, event, matched, idx, calls, outcomes,
                   result, nemits>>
    /\ UNCHANGED <<buildVars, cacheVars>>

\* the queued writer is granted the lock, pushes, and drops its guard; a
\* register called from inside on_event returns to that listener
RegisterGranted(t) ==
    /\ pc[t] \in {"reg_wait", "nested_wait"}
    /\ waitq # <<>> /\ Head(waitq).task = t
    /\ readers = {}
    /\ listeners' = EntryPush(listeners, req[t].pattern, req[t].listener)
    /\ waitq' = Tail(waitq)
    /\ req' = [req EXCEPT ![t] = NoReq]
    /\ pc' = [pc EXCEPT ![t] = IF pc[t] = "nested_wait" THEN "in_listener" ELSE "idle"]
    /\ UNCHANGED <<readers, event, matched, idx, calls, outcomes, result,
                   nregs, nemits>>
    /\ UNCHANGED <<asked, buildVars, cacheVars>>

\* what emit does once it holds the read guard: lines 135-155
EmitGathered(t, e) ==
    /\ readers' = readers \cup {t}
    /\ event' = [event EXCEPT ![t] = e]
    /\ matched' = [matched EXCEPT ![t] = Gather(listeners, e)]
    /\ idx' = [idx EXCEPT ![t] = 1]
    /\ calls' = [calls EXCEPT ![t] = <<>>]
    /\ outcomes' = [outcomes EXCEPT ![t] = <<>>]
    /\ result' = [result EXCEPT ![t] = Pending]
    /\ pc' = [pc EXCEPT ![t] = "emit_loop"]

\* emit: self.listeners.read().await, uncontended
EmitNow(t, e) ==
    /\ pc[t] = "idle"
    /\ nemits < MaxEmits
    /\ waitq = <<>>
    /\ EmitGathered(t, e)
    /\ nemits' = nemits + 1
    /\ UNCHANGED <<listeners, waitq, req, nregs>>
    /\ UNCHANGED <<asked, buildVars, cacheVars>>

\* emit: self.listeners.read().await queues behind a waiting writer
EmitWait(t, e) ==
    /\ pc[t] = "idle"
    /\ nemits < MaxEmits
    /\ waitq # <<>>
    /\ waitq' = Append(waitq, QueueEntry(t, "read"))
    /\ event' = [event EXCEPT ![t] = e]
    /\ pc' = [pc EXCEPT ![t] = "emit_wait"]
    /\ matched' = [matched EXCEPT ![t] = <<>>]
    /\ idx' = [idx EXCEPT ![t] = 0]
    /\ calls' = [calls EXCEPT ![t] = <<>>]
    /\ outcomes' = [outcomes EXCEPT ![t] = <<>>]
    /\ result' = [result EXCEPT ![t] = Pending]
    /\ nemits' = nemits + 1
    /\ UNCHANGED <<listeners, readers, req, nregs>>
    /\ UNCHANGED <<asked, buildVars, cacheVars>>

\* the queued reader is granted the lock
EmitGranted(t) ==
    /\ pc[t] = "emit_wait"
    /\ waitq # <<>> /\ Head(waitq).task = t
    /\ waitq' = Tail(waitq)
    /\ EmitGathered(t, event[t])
    /\ UNCHANGED <<listeners, req, nregs, nemits>>
    /\ UNCHANGED <<asked, buildVars, cacheVars>>

\* for listener in matched_listeners { listener.on_event(event.clone()) ..
CallListener(t) ==
    /\ pc[t] = "emit_loop"
    /\ idx[t] <= Len(matched[t])
    /\ calls' = [calls EXCEPT ![t] = Append(@, matched[t][idx[t]])]
    /\ pc' = [pc EXCEPT ![t] = "in_listener"]
    /\ UNCHANGED <<listeners, waitq, readers, event, req, matched, idx,
                   outcomes, result, nregs, nemits>>
    /\ UNCHANGED <<asked, buildVars, cacheVars>>

\* .. .await?; }  the listener returns `outcome`
ListenerReturns(t, outcome) ==
    /\ pc[t] = "in_listener"
    /\ outcomes' = [outcomes EXCEPT ![t] = Append(@, outcome)]
    /\ IF Aborts(outcome)
       THEN /\ result' = [result EXCEPT ![t] = outcome]
            /\ readers' = readers \ {t}
            /\ pc' = [pc EXCEPT ![t] = "idle"]
            /\ idx' = idx
       ELSE /\ idx' = [idx EXCEPT ![t] = @ + 1]
            /\ pc' = [pc EXCEPT ![t] = "emit_loop"]
            /\ UNCHANGED <<result, readers>>
    /\ UNCHANGED <<listeners, waitq, event, req, matched, calls, nregs, nemits>>
    /\ UNCHANGED <<asked, buildVars, cacheVars>>

\* the listener calls register on the same registry from inside on_event:
\* its write().await queues behind the read guard of the enclosing emit
ListenerRegisters(t, p, l) ==
    /\ pc[t] = "in_listener"
    /\ nregs < MaxRegs
    /\ waitq' = Append(waitq, QueueEntry(t, "write"))
    /\ req' = [req EXCEPT ![t] = [pattern |-> p, listener |-> l]]
    /\ pc' = [pc EXCEPT ![t] = "nested_wait"]
    /\ nregs' = nregs + 1
    /\ asked' = [asked EXCEPT ![<<p, l>>] = @ + 1]
    /\ UNCHANGED <<listeners, readers, event, matched, idx, calls, outcomes,
                   result, nemits>>
    /\ UNCHANGED <<buildVars, cacheVars>>

\* the listener's on_event never returns
ListenerHangs(t) ==
    /\ pc[t] = "in_listener"
    /\ pc' = [pc EXCEPT ![t] = "hung"]
    /\ UNCHANGED <<listeners, waitq, readers, event, req, matched, idx, calls,
                   outcomes, result, nregs, nemits>>
    /\ UNCHANGED <<asked, buildVars, cacheVars>>

\* Ok(()) at the end of emit; the read guard is dropped
EmitReturns(t) ==
    /\ pc[t] = "emit_loop"
    /\ idx[t] > Len(matched[t])
    /\ result' = [result EXCEPT ![t] = Ok]
    /\ readers' = readers \ {t}
    /\ pc' = [pc EXCEPT ![t] = "idle"]
    /\ UNCHANGED <<listeners, waitq, event, req, matched, idx, calls, outcomes,
                   nregs, nemits>>
    /\ UNCHANGED <<asked, buildVars, cacheVars>>

NextEvents ==
    \/ \E t \in Tasks, p \in Patterns, l \in Listeners : RegisterNow(t, p, l)
    \/ \E t \in Tasks, p \in Patterns, l \in Listeners : RegisterWait(t, p, l)
    \/ \E t \in Tasks : RegisterGranted(t)
    \/ \E t \in Tasks, e \in Events : EmitNow(t, e)
    \/ \E t \in Tasks, e \in Events : EmitWait(t, e)
    \/ \E t \in Tasks : EmitGranted(t)
    \/ \E t \in Tasks : CallListener(t)
    \/ \E t \in Tasks : ListenerReturns(t, Ok)
    \/ \E t \in Tasks : ListenerReturns(t, Err(ErrorOf(calls[t][Len(calls[t])])))
    \/ \E t \in Tasks, p \in NestedPatterns, l \in Listeners : ListenerRegisters(t, p, l)
    \/ \E t \in Tasks : ListenerHangs(t)
    \/ \E t \in Tasks : EmitReturns(t)

SpecEvents == Init /\ [][NextEvents]_vars

\* Every task that can take a step eventually takes one: the runtime polls
\* every ready task, a granted lock request resumes, on_event returns.
FairEvents ==
    \A t \in Tasks :
        /\ WF_vars(RegisterGranted(t))
        /\ WF_vars(EmitGranted(t))
        /\ WF_vars(CallListener(t))
        /\ WF_vars(ListenerReturns(t, Ok))
        /\ WF_vars(EmitReturns(t))

FairSpecEvents == SpecEvents /\ FairEvents

(***************************************************************************)
(* functions.rs                                                            *)
(***************************************************************************)

\* an insert that keeps the entry already stored under the name
InsertKeepFirst(m, name, h) ==
    IF name \in DOMAIN m THEN m ELSE m @@ (name :> h)

\* HashMap::insert: functions.insert(name, handler)
Insert(m, name, h) ==
    [n \in DOMAIN m \cup {name} |-> IF n = name THEN h ELSE m[n]]

\* Arc::get_mut(&mut self.functions) is Some only for the sole owner
GetMut(n) == n = 1

\* FunctionRegistry::get: Option<Arc<dyn FunctionHandler>>
Get(m, name) == IF name \in DOMAIN m THEN <<m[name]>> ELSE <<>>

\* FunctionRegistry::contains
Contains(m, name) == name \in DOMAIN m

RECURSIVE KeysToSeq(_)
\* self.functions.keys().cloned().collect(), in the map's iteration order
KeysToSeq(ks) ==
    IF ks = {} THEN <<>>
    ELSE LET k == CHOOSE x \in ks : TRUE IN <<k>> \o KeysToSeq(ks \ {k})

\* FunctionRegistry::list
List(m) == KeysToSeq(DOMAIN m)

(***************************************************************************)
(* module.rs                                                               *)
(***************************************************************************)

\* Module::new
ModuleNew ==
    /\ phase = "compose"
    /\ cur = NoModule
    /\ Len(modules) < MaxModules
    /\ cur' = [name |-> ModuleName(Len(modules) + 1), functions |-> <<>>,
               listeners |-> <<>>]
    /\ UNCHANGED <<modules, functions, owners, phase, nextArc, regOutcome,
                   history, npost, listeners, evLocal, cacheVars>>

\* the declarations made so far, over all modules
NumDecls == nextArc - 1

\* Module::with_function / with_raw_function
WithFunction(name) ==
    /\ phase = "compose"
    /\ cur # NoModule
    /\ NumDecls < MaxDecls
    /\ cur' = [cur EXCEPT !.functions =
                   Append(@, [name |-> name, handler |-> nextArc])]
    /\ nextArc' = nextArc + 1
    /\ UNCHANGED <<modules, functions, owners, phase, regOutcome, history,
                   npost, listeners, evLocal, cacheVars>>

\* Module::with_listener / with_raw_listener
WithListener(pattern) ==
    /\ phase = "compose"
    /\ cur # NoModule
    /\ NumDecls < MaxDecls
    /\ cur' = [cur EXCEPT !.listeners =
                   Append(@, [pattern |-> pattern, listener |-> nextArc])]
    /\ nextArc' = nextArc + 1
    /\ UNCHANGED <<modules, functions, owners, phase, regOutcome, history,
                   npost, listeners, evLocal, cacheVars>>

(***************************************************************************)
(* server.rs                                                               *)
(***************************************************************************)

\* SurrealX::with_module
WithModule ==
    /\ phase = "compose"
    /\ cur # NoModule
    /\ modules' = Append(modules, cur)
    /\ cur' = NoModule
    /\ UNCHANGED <<functions, owners, phase, nextArc, regOutcome, history,
                   npost, listeners, evLocal, cacheVars>>

\* a key that is the bare declared name
FullNameBare(name) == name

\* format!("ext::{}", name)
FullName(name) == "ext::" \o name

RECURSIVE RegisterFunctions(_, _)
\* for (name, handler) in module.functions() { register_arc(full_name, ..) }
RegisterFunctions(m, fs) ==
    IF fs = <<>> THEN m
    ELSE RegisterFunctions(Insert(m, FullName(Head(fs).name), Head(fs).handler),
                           Tail(fs))

RECURSIVE BuildFunctionsRev(_, _)
\* a first loop that walks the modules from the last to the first
BuildFunctionsRev(m, ms) ==
    IF ms = <<>> THEN m
    ELSE BuildFunctionsRev(RegisterFunctions(m, ms[Len(ms)].functions),
                           SubSeq(ms, 1, Len(ms) - 1))

RECURSIVE BuildFunctions(_, _)
\* for module in &self.modules { .. }: the first loop of build
BuildFunctions(m, ms) ==
    IF ms = <<>> THEN m
    ELSE BuildFunctions(RegisterFunctions(m, Head(ms).functions), Tail(ms))

RECURSIVE InsertedBy(_)
\* the (key, handler) pairs one module's functions pass to register_arc
InsertedBy(fs) ==
    IF fs = <<>> THEN <<>>
    ELSE <<[name |-> FullName(Head(fs).name), handler |-> Head(fs).handler]>>
         \o InsertedBy(Tail(fs))

RECURSIVE BuildInserted(_)
\* the pairs the first loop of build passes to register_arc, in order
BuildInserted(ms) ==
    IF ms = <<>> THEN <<>>
    ELSE InsertedBy(Head(ms).functions) \o BuildInserted(Tail(ms))

RECURSIVE RegisterListeners(_, _)
\* for (pattern, listener) in module.listeners() { register_arc(pattern, ..) }
RegisterListeners(m, ls) ==
    IF ls = <<>> THEN m
    ELSE RegisterListeners(EntryPush(m, Head(ls).pattern, Head(ls).listener),
                           Tail(ls))

RECURSIVE BuildListeners(_, _)
\* for module in &self.modules { .. }: the second loop of build
BuildListeners(m, ms) ==
    IF ms = <<>> THEN m
    ELSE BuildListeners(RegisterListeners(m, Head(ms).listeners), Tail(ms))

\* the modules declare at least one function
DeclaresFunction(ms) == \E i \in 1..Len(ms) : ms[i].functions # <<>>

\* SurrealX::build
Build ==
    /\ phase = "compose"
    /\ cur = NoModule
    /\ IF DeclaresFunction(modules) /\ ~GetMut(owners)
       THEN \* .expect("Cannot modify registry with existing references")
            /\ phase' = "panicked"
            /\ UNCHANGED <<functions, listeners, history>>
       ELSE /\ functions' = BuildFunctions(functions, modules)
            /\ history' = history \o BuildInserted(modules)
            /\ listeners' = BuildListeners(listeners, modules)
            /\ phase' = "built"
    /\ UNCHANGED <<cur, modules, owners, nextArc, regOutcome, npost, evLocal, cacheVars>>

\* a BuiltSurrealX exists
Built == phase \in {"built", "running"}

\* register / register_arc on the pub field BuiltSurrealX.function_registry
FnRegister(name) ==
    /\ Built
    /\ npost < MaxPost
    /\ IF GetMut(owners)
       THEN /\ functions' = Insert(functions, name, nextArc)
            /\ history' = Append(history, [name |-> name, handler |-> nextArc])
            /\ regOutcome' = "ok"
            /\ phase' = "running"
       ELSE \* .expect("Cannot modify registry with existing references")
            /\ regOutcome' = "panic"
            /\ phase' = "panicked"
            /\ UNCHANGED <<functions, history>>
    /\ nextArc' = nextArc + 1
    /\ npost' = npost + 1
    /\ UNCHANGED <<cur, modules, owners, listeners, evLocal, cacheVars>>

\* #[derive(Clone)] on FunctionRegistry: the clone shares the map
FnClone ==
    /\ Built
    /\ owners < MaxOwners
    /\ owners' = owners + 1
    /\ phase' = "running"
    /\ UNCHANGED <<cur, modules, functions, nextArc, regOutcome, history,
                   npost, listeners, evLocal, cacheVars>>

\* a clone of the FunctionRegistry is dropped
FnDrop ==
    /\ Built
    /\ owners > 1
    /\ owners' = owners - 1
    /\ phase' = "running"
    /\ UNCHANGED <<cur, modules, functions, nextArc, regOutcome, history,
                   npost, listeners, evLocal, cacheVars>>

\* register / register_arc on BuiltSurrealX.event_registry
EventRegister(p) ==
    /\ Built
    /\ npost < MaxPost
    /\ listeners' = EntryPush(listeners, p, nextArc)
    /\ nextArc' = nextArc + 1
    /\ npost' = npost + 1
    /\ phase' = "running"
    /\ UNCHANGED <<cur, modules, functions, owners, regOutcome, history,
                   evLocal, cacheVars>>

NextBuild ==
    \/ ModuleNew
    \/ \E name \in FnNames : WithFunction(name)
    \/ \E p \in Patterns : WithListener(p)
    \/ WithModule
    \/ Build
    \/ \E name \in DirectNames : FnRegister(name)
    \/ FnClone
    \/ FnDrop
    \/ \E p \in PostPatterns : EventRegister(p)

SpecBuild == Init /\ [][NextBuild]_vars

(***************************************************************************)
(* cache.rs                                                                *)
(***************************************************************************)

\* struct CacheEntry
CacheEntry(v, e) == [value |-> v, expires_at |-> e]

\* `seconds as i64`: the bits of the u64 read as a two's complement i64
AsI64(u) == IF u > I64Max THEN u - (U64Max + 1) ELSE u

\* the i64 sum a + b fits
Fits(a, b) == a + b <= I64Max /\ a + b >= -(I64Max + 1)

\* the i64 sum a + b as a build without overflow checks computes it
WrappingAdd(a, b) == ((a + b + I64Max + 1) % (U64Max + 1)) - (I64Max + 1)

\* ttl.map(|seconds| now + seconds as i64): the outcomes of the expression;
\* on overflow a build with overflow checks panics and one without wraps
ExpiresAt(ttl, n) ==
    IF ttl = <<>> THEN {[panics |-> FALSE, expires_at |-> <<>>]}
    ELSE IF Fits(n, AsI64(ttl[1]))
         THEN {[panics |-> FALSE, expires_at |-> <<n + AsI64(ttl[1])>>]}
    ELSE {[panics |-> FALSE, expires_at |-> <<WrappingAdd(n, AsI64(ttl[1]))>>],
          [panics |-> TRUE, expires_at |-> <<>>]}

\* a retain that also keeps the entries expiring at the clock reading
RetainedAtOrAfter(entry, n) == entry.expires_at = <<>> \/ entry.expires_at[1] >= n

\* a retain that keeps only the entries that have an expiry in the future
RetainedTimedOnly(entry, n) == entry.expires_at # <<>> /\ entry.expires_at[1] > n

\* the closure of cache.retain in cleanup_expired
Retained(entry, n) == entry.expires_at = <<>> \/ entry.expires_at[1] > n

\* a lookup that does not look at the expiry
LiveAlways(entry, n) == TRUE

\* the condition of get on the entry it found
Live(entry, n) == entry.expires_at = <<>> \/ entry.expires_at[1] > n

\* cleanup_expired, inside its write guard
CleanupExpired(m, n) == [k \in {j \in DOMAIN m : Retained(m[j], n)} |-> m[k]]

\* cache.get(key), as Option
Find(m, k) == IF k \in DOMAIN m THEN <<m[k]>> ELSE <<>>

\* cache.get(key).and_then(..) of get
Lookup(m, k, n) ==
    IF k \in DOMAIN m /\ Live(m[k], n) THEN <<m[k].value>> ELSE <<>>

\* exists: is_some() of what get returned
IsSome(o) == o # <<>>

\* cache.insert(key, entry)
CacheInsert(m, k, entry) ==
    IF k \in DOMAIN m THEN [m EXCEPT ![k] = entry] ELSE m @@ (k :> entry)

\* cache.remove(key)
CacheRemove(m, k) == [j \in DOMAIN m \ {k} |-> m[j]]

\* a clear that leaves the entries without expiry
CacheClearTimed(m) == [k \in {j \in DOMAIN m : m[j].expires_at = <<>>} |-> m[k]]

\* cache.clear()
CacheClear(m) == <<>>

\* get, called directly or by exists, first half: cleanup_expired takes the
\* write guard, reads the clock, retains, and drops the guard
GetSweep(t, k) ==
    /\ cpc[t] = "idle"
    /\ nops < MaxCacheOps
    /\ cache' = CleanupExpired(cache, now)
    /\ got' = [got EXCEPT ![t] = [NoGet EXCEPT !.key = k, !.t1 = now,
                                               !.kept = Find(cache', k)]]
    /\ cpc' = [cpc EXCEPT ![t] = "swept"]
    /\ nops' = nops + 1
    /\ UNCHANGED <<now, creq, written>>
    /\ UNCHANGED <<listeners, evLocal, buildVars>>

\* get, second half: the read guard, a second clock reading, the lookup
GetLookup(t) ==
    /\ cpc[t] = "swept"
    /\ got' = [got EXCEPT ![t] = [@ EXCEPT !.t2 = now,
                                           !.seen = Find(cache, got[t].key),
                                           !.wr = written[got[t].key],
                                           !.val = Lookup(cache, got[t].key, now),
                                           !.done = TRUE]]
    /\ cpc' = [cpc EXCEPT ![t] = "idle"]
    /\ UNCHANGED <<cache, now, creq, written, nops>>
    /\ UNCHANGED <<listeners, evLocal, buildVars>>

\* set, before the lock: expires_at is computed from a clock reading
SetStart(t, k, ttl) ==
    /\ cpc[t] = "idle"
    /\ nops < MaxCacheOps
    /\ \E e \in ExpiresAt(ttl, now) :
        IF e.panics
        THEN /\ cpc' = [cpc EXCEPT ![t] = "panicked"]
             /\ creq' = creq
        ELSE /\ cpc' = [cpc EXCEPT ![t] = "set_wait"]
             /\ creq' = [creq EXCEPT ![t] = [key |-> k, value |-> ValueOf(t), ttl |-> ttl,
                                             at |-> now,
                                             expires_at |-> e.expires_at]]
    /\ got' = [got EXCEPT ![t] = NoGet]
    /\ nops' = nops + 1
    /\ UNCHANGED <<cache, now, written>>
    /\ UNCHANGED <<listeners, evLocal, buildVars>>

\* set, inside the write guard
SetInsert(t) ==
    /\ cpc[t] = "set_wait"
    /\ cache' = CacheInsert(cache, creq[t].key,
                            CacheEntry(creq[t].value, creq[t].expires_at))
    /\ written' = [written EXCEPT ![creq[t].key] =
                       [state |-> "set", value |-> creq[t].value,
                        ttl |-> creq[t].ttl, at |-> creq[t].at]]
    /\ creq' = [creq EXCEPT ![t] = NoSet]
    /\ cpc' = [cpc EXCEPT ![t] = "idle"]
    /\ UNCHANGED <<now, got, nops>>
    /\ UNCHANGED <<listeners, evLocal, buildVars>>

\* delete
Delete(t, k) ==
    /\ cpc[t] = "idle"
    /\ nops < MaxCacheOps
    /\ cache' = CacheRemove(cache, k)
    /\ written' = [written EXCEPT ![k] = [Unset EXCEPT !.state = "deleted"]]
    /\ got' = [got EXCEPT ![t] = NoGet]
    /\ nops' = nops + 1
    /\ UNCHANGED <<now, cpc, creq>>
    /\ UNCHANGED <<listeners, evLocal, buildVars>>

\* clear
Clear(t) ==
    /\ cpc[t] = "idle"
    /\ nops < MaxCacheOps
    /\ cache' = CacheClear(cache)
    /\ written' = [k \in Keys |-> IF written[k].state = "unset" THEN Unset
                                  ELSE [Unset EXCEPT !.state = "cleared"]]
    /\ got' = [got EXCEPT ![t] = NoGet]
    /\ nops' = nops + 1
    /\ UNCHANGED <<now, cpc, creq>>
    /\ UNCHANGED <<listeners, evLocal, buildVars>>

\* a second passes
Tick ==
    /\ now < MaxClock
    /\ now' = now + 1
    /\ UNCHANGED <<cache, cpc, creq, got, written, nops>>
    /\ UNCHANGED <<listeners, evLocal, buildVars>>

NextCache ==
    \/ \E t \in Tasks, k \in Keys : GetSweep(t, k)
    \/ \E t \in Tasks : GetLookup(t)
    \/ \E t \in Tasks, k \in Keys, ttl \in Ttls : SetStart(t, k, ttl)
    \/ \E t \in Tasks : SetInsert(t)
    \/ \E t \in Tasks, k \in Keys : Delete(t, k)
    \/ \E t \in Tasks : Clear(t)
    \/ Tick

SpecCache == Init /\ [][NextCache]_vars

(***************************************************************************)
(* Properties of EventRegistry                                             *)
(***************************************************************************)

\* how many times x occurs in the sequence s
Count(s, x) == Cardinality({i \in 1..Len(s) : s[i] = x})

\* how many entries of the map m hold the listener l
Registrations(m, l) ==
    Cardinality({pi \in UNION {{<<p, i>> : i \in 1..Len(m[p])} : p \in DOMAIN m} :
                    m[pi[1]][pi[2]] = l})

\* the listener l has an entry under the pattern p
RegisteredUnder(m, p, l) == p \in DOMAIN m /\ Count(m[p], l) > 0

\* the emit of task t has called every gathered listener, each returned Ok,
\* and it is about to return (it still holds its read guard, so the map is
\* the one it gathered from)
AllCalled(t) == pc[t] = "emit_loop" /\ idx[t] > Len(matched[t])

\* C1: emit delivers at most once per listener per event: a listener
\* registered once, under "{table}:*", is called exactly once by an emit of
\* any event of that table, an event with no record id included.
C1_AtMostOncePerListener ==
    \A t \in Tasks : \A l \in Listeners :
        ( /\ AllCalled(t)
          /\ Registrations(listeners, l) = 1
          /\ RegisteredUnder(listeners, WildcardPattern(event[t]), l) )
        => Count(calls[t], l) = 1

\* C2: for an event with a record id, when every listener succeeds, each
\* listener registered under "T:I", "T:*" or "*" is called exactly once by
\* the emit: none is skipped, none is called twice.
C2_EachMatchedExactlyOnce ==
    \A t \in Tasks : \A l \in Listeners :
        ( /\ AllCalled(t)
          /\ event[t].record_id # <<>>
          /\ \/ RegisteredUnder(listeners, EventPattern(event[t]), l)
             \/ RegisteredUnder(listeners, WildcardPattern(event[t]), l)
             \/ RegisteredUnder(listeners, "*", l) )
        => Count(calls[t], l) = 1

\* C3: emit is fail-fast: when the k-th gathered listener returns an error,
\* emit returns that error, exactly the first k gathered listeners have been
\* called, each once and in order, and no later one is called.
C3_FailFast ==
    \A t \in Tasks : \A k \in 1..Len(outcomes[t]) :
        ~outcomes[t][k].ok =>
            /\ result[t] = outcomes[t][k]
            /\ result[t].err = ErrorOf(matched[t][k])
            /\ Len(outcomes[t]) = k
            /\ calls[t] = SubSeq(matched[t], 1, k)
            /\ \A i \in 1..(k - 1) : outcomes[t][i].ok
            /\ t \notin readers

\* an emit failed at its second listener and left a third, different one
\* uncalled
C3_Witness ==
    \E t \in Tasks :
        /\ Len(outcomes[t]) = 2
        /\ ~outcomes[t][2].ok
        /\ Len(matched[t]) > 2
        /\ matched[t][3] # matched[t][2]
        /\ Len(calls[t]) = 2
        /\ ~result[t].ok /\ result[t] # Pending

\* C4: a register called from inside on_event on the same registry always
\* completes, and the enclosing emit returns.
C4_NestedRegisterCompletes ==
    \A t \in Tasks : (pc[t] = "nested_wait") ~> (result[t] # Pending)

\* C15: a listener that never returns blocks only the emit that called it:
\* while it hangs, any other task waiting for the registry's lock (a register,
\* or an emit queued behind one) is eventually granted it.
C15_HangBlocksOnlyItsEmit ==
    \A t \in Tasks :
        ((\E u \in Tasks \ {t} : pc[u] = "hung") /\ pc[t] \in {"reg_wait", "emit_wait"})
            ~> (pc[t] \notin {"reg_wait", "emit_wait"})

\* every register / emit call has returned
Quiescent == \A t \in Tasks : pc[t] = "idle"

\* register calls for (p, l) that were made and have not taken effect yet
WaitingFor(p, l) ==
    Cardinality({t \in Tasks : /\ pc[t] \in {"reg_wait", "nested_wait"}
                               /\ req[t] = [pattern |-> p, listener |-> l]})

\* entries of listener l in the list stored for pattern p
Stored(m, p, l) == IF p \in DOMAIN m THEN Count(m[p], l) ELSE 0

\* s is an initial segment of r
IsPrefix(s, r) == Len(s) <= Len(r) /\ SubSeq(r, 1, Len(s)) = s

\* C16: no registration is lost or duplicated under any interleaving of
\* register and emit: at every moment the list of each pattern holds each
\* listener once per registration made for it that has taken effect, patterns()
\* is the set of patterns with a registration in effect, and a step only ever
\* appends to the end of a list, so each list is in the order the
\* registrations took effect.
C16_NoRegistrationLost ==
    /\ [](\A p \in Patterns, l \in Listeners :
              Stored(listeners, p, l) + WaitingFor(p, l) = asked[<<p, l>>])
    /\ [](PatternsOf(listeners) =
              {p \in Patterns : \E l \in Listeners :
                                    asked[<<p, l>>] > WaitingFor(p, l)})
    /\ [][\A p \in DOMAIN listeners :
              p \in DOMAIN listeners' /\ IsPrefix(listeners[p], listeners'[p])]_vars

\* all calls have returned, two registrations are stored under one pattern, and
\* one of them took effect after an emit of a matching event had gathered
C16_Witness ==
    /\ Quiescent
    /\ \E p \in DOMAIN listeners : Len(listeners[p]) = 2
    /\ \E t \in Tasks :
        /\ event[t] # NoEvent
        /\ result[t] = Ok
        /\ Len(matched[t]) < Len(Gather(listeners, event[t]))

\* C17: snapshot-then-release-then-invoke: while a listener's on_event runs
\* on behalf of an emit, that emit holds no lock on the pattern map.
C17_NoLockWhileListenerRuns ==
    \A t \in Tasks : pc[t] \in {"in_listener", "nested_wait", "hung"} => t \notin readers

\* the list stored for pattern p, empty when there is none
ListOf(m, p) == IF p \in DOMAIN m THEN m[p] ELSE <<>>

\* the listeners of the event's own pattern, then those of "{table}:*", then
\* those of "*", each list in insertion order
InGatheringOrder(m, e) ==
    ListOf(m, EventPattern(e)) \o ListOf(m, e.table \o ":*") \o ListOf(m, "*")

\* C18: emit calls the gathered listeners one at a time, in gathering order:
\* the calls made so far are an initial segment of the exact-pattern list
\* followed by the "{table}:*" list followed by the "*" list, a call starts only
\* when every earlier one has returned, and an emit that ran to the end has
\* called the whole sequence.
C18_SequentialInGatheringOrder ==
    \A t \in Tasks :
        t \in readers =>
            /\ IsPrefix(calls[t], InGatheringOrder(listeners, event[t]))
            /\ pc[t] = "emit_loop" => Len(outcomes[t]) = Len(calls[t])
            /\ pc[t] \in {"in_listener", "nested_wait", "hung"} =>
                   Len(calls[t]) = Len(outcomes[t]) + 1
            /\ AllCalled(t) => calls[t] = InGatheringOrder(listeners, event[t])

\* an emit for a record ran to the end and called a listener of the exact
\* pattern and then a different listener that is not registered under it
C18_Witness ==
    \E t \in Tasks :
        /\ AllCalled(t)
        /\ event[t].record_id # <<>>
        /\ Len(calls[t]) = 2
        /\ calls[t][1] # calls[t][2]
        /\ RegisteredUnder(listeners, EventPattern(event[t]), calls[t][1])
        /\ ~RegisteredUnder(listeners, EventPattern(event[t]), calls[t][2])

\* the patterns an event is delivered under
DeliveredUnder(e) == {EventPattern(e), e.table \o ":*", "*"}

\* the step is a step of the emit of task t: the call, the grant of the read
\* guard, a call of a listener, the return of one, or the return of emit
EmitStep(t) ==
    <<pc[t], pc'[t]>> \in {<<"idle", "emit_loop">>, <<"idle", "emit_wait">>,
                           <<"emit_wait", "emit_loop">>, <<"emit_loop", "in_listener">>,
                           <<"in_listener", "emit_loop">>, <<"in_listener", "idle">>,
                           <<"emit_loop", "idle">>}

\* C23: emit is selective and read-only: every listener an emit has called is
\* registered under event.pattern(), "{table}:*" or "*", so a listener
\* registered only under other patterns is never called, and no step of an
\* emit changes the pattern-to-listeners map.
C23_SelectiveReadOnly ==
    /\ [](\A t \in Tasks :
              t \in readers =>
                  \A i \in 1..Len(calls[t]) :
                      \E p \in DeliveredUnder(event[t]) :
                          RegisteredUnder(listeners, p, calls[t][i]))
    /\ [][\A t \in Tasks : EmitStep(t) => listeners' = listeners]_vars

\* an emit ran to the end and called a listener, while another listener,
\* registered only under a pattern the event is not delivered under, was not
\* called
C23_Witness ==
    \E t \in Tasks, l \in Listeners :
        /\ AllCalled(t)
        /\ Len(calls[t]) >= 1
        /\ Count(calls[t], l) = 0
        /\ \E p \in DOMAIN listeners \ DeliveredUnder(event[t]) :
               RegisteredUnder(listeners, p, l)
        /\ \A p \in DeliveredUnder(event[t]) : ~RegisteredUnder(listeners, p, l)

(***************************************************************************)
(* Properties of MemoryCacheProvider                                       *)
(***************************************************************************)

\* the get / exists of task t has returned
Returned(t) == got[t].done

\* C11: once the clock has reached an entry's expiry, no later get returns
\* the entry's value and no later exists returns true: a get that returns a
\* value returns the value of the entry stored under the key at its lookup, and
\* that entry has no expiry or one that is after the clock reading of the
\* lookup, which is not before the clock reading at the call.
C11_ExpiredNeverObserved ==
    \A t \in Tasks :
        (Returned(t) /\ IsSome(got[t].val)) =>
            /\ got[t].seen # <<>>
            /\ got[t].val = <<got[t].seen[1].value>>
            /\ got[t].t1 <= got[t].t2
            /\ got[t].seen[1].expires_at # <<>> =>
                   got[t].seen[1].expires_at[1] > got[t].t2

\* a get called when the clock had reached the expiry of an entry that was
\* still in the map at the lookup returned none
C11_Witness ==
    \E t \in Tasks :
        /\ Returned(t)
        /\ got[t].seen # <<>>
        /\ got[t].seen[1].expires_at # <<>>
        /\ got[t].seen[1].expires_at[1] <= got[t].t1
        /\ ~IsSome(got[t].val)

\* C12: for every ttl >= 1, after set(k, v, ttl) at clock time T with no other
\* write to k, a get whose clock readings are T returns v, and a get called
\* at a clock time >= T + ttl returns none (exists: false).
C12_TtlWindow ==
    \A t \in Tasks :
        (/\ Returned(t)
         /\ got[t].wr.state = "set"
         /\ got[t].wr.ttl # <<>>
         /\ got[t].wr.ttl[1] >= 1) =>
            /\ (got[t].t1 = got[t].wr.at /\ got[t].t2 = got[t].wr.at) =>
                   got[t].val = <<got[t].wr.value>>
            /\ got[t].t1 >= got[t].wr.at + got[t].wr.ttl[1] => ~IsSome(got[t].val)

\* C13: an entry written by set(k, v, None) never expires: as long as that set
\* is the last write to k, the map holds v under k without expiry, whatever the
\* clock and whatever sweeps ran, and every get of k returns v.
C13_NoTtlNeverExpires ==
    /\ \A k \in Keys :
        (written[k].state = "set" /\ written[k].ttl = <<>>) =>
            /\ k \in DOMAIN cache
            /\ cache[k] = CacheEntry(written[k].value, <<>>)
    /\ \A t \in Tasks :
        (Returned(t) /\ got[t].wr.state = "set" /\ got[t].wr.ttl = <<>>) =>
            got[t].val = <<got[t].wr.value>>

\* a get returned the value of an entry set without ttl at an earlier clock
\* time, after its own sweep
C13_Witness ==
    \E t \in Tasks :
        /\ Returned(t)
        /\ got[t].wr.state = "set" /\ got[t].wr.ttl = <<>>
        /\ got[t].t1 > got[t].wr.at
        /\ got[t].val = <<got[t].wr.value>>

\* C14: after clear() the store is empty: a key that was set before the clear
\* and not set again is not in the map, and a get of it returns none (exists:
\* false).
C14_ClearEmpties ==
    /\ \A k \in Keys : written[k].state \in {"unset", "cleared"} => k \notin DOMAIN cache
    /\ (\A k \in Keys : written[k].state \in {"unset", "cleared"}) => cache = <<>>
    /\ \A t \in Tasks :
        (Returned(t) /\ got[t].wr.state = "cleared") =>
            got[t].seen = <<>> /\ ~IsSome(got[t].val)

\* a get of a key that was set and then cleared has returned
C14_Witness ==
    \E t \in Tasks : Returned(t) /\ got[t].wr.state = "cleared" /\ ~IsSome(got[t].val)

\* C19: every operation is atomic with respect to every other: while a get is
\* between its sweep and its lookup, no set, delete or clear of another task
\* changes the map.
C19_GetIsAtomic ==
    [][\A t \in Tasks : cpc[t] = "swept" => (written' = written \/ cache' = cache)]_vars

\* C20: the sweep and the liveness check of one get use one clock reading: a
\* get never keeps an entry in its sweep and then, finding that same entry at
\* the lookup, treats it as expired and returns none.
C20_SingleClockReading ==
    \A t \in Tasks :
        Returned(t) =>
            ~(got[t].kept # <<>> /\ got[t].seen = got[t].kept /\ ~IsSome(got[t].val))

\* C21: for every ttl of the unsigned 64-bit range and every clock time T,
\* set stores expires_at = T + ttl as a mathematical sum: no set panics, the
\* expiry a set is about to insert is the exact sum, and a get whose lookup
\* reads a clock time below T + ttl returns the value.
C21_ExpiryIsExactSum ==
    /\ \A t \in Tasks : cpc[t] # "panicked"
    /\ \A t \in Tasks :
        (cpc[t] = "set_wait" /\ creq[t].ttl # <<>>) =>
            creq[t].expires_at = <<creq[t].at + creq[t].ttl[1]>>
    /\ \A t \in Tasks :
        (/\ Returned(t)
         /\ got[t].wr.state = "set"
         /\ got[t].wr.ttl # <<>>
         /\ got[t].t2 < got[t].wr.at + got[t].wr.ttl[1]) =>
            got[t].val = <<got[t].wr.value>>

\* the step leaves the key k as it was: absent, or with the same entry
SameAt(k) ==
    /\ (k \in DOMAIN cache') = (k \in DOMAIN cache)
    /\ k \in DOMAIN cache => cache'[k] = cache[k]

\* the step is the sweep of a get of task t
SweepStep(t) == cpc[t] = "idle" /\ cpc'[t] = "swept"

\* the step is the insert of a set of task t
InsertStep(t) == cpc[t] = "set_wait" /\ cpc'[t] = "idle"

\* C22: reaping is lazy and full-scan: the sweep of a get removes exactly
\* the entries, under any key, whose expiry is at or before the clock reading,
\* and leaves every other entry as it was; the insert of a set changes the
\* entry of its own key only; any other step leaves the map as it was, removes
\* the entry of one key (delete) or empties the map (clear).
C22_LazyFullScanReap ==
    [][/\ \A t \in Tasks :
            SweepStep(t) =>
                /\ DOMAIN cache' =
                       {k \in DOMAIN cache : \/ cache[k].expires_at = <<>>
                                             \/ cache[k].expires_at[1] > now}
                /\ \A k \in DOMAIN cache' : cache'[k] = cache[k]
       /\ \A t \in Tasks :
            InsertStep(t) =>
                /\ creq[t].key \in DOMAIN cache'
                /\ \A k \in Keys \ {creq[t].key} : SameAt(k)
       /\ (\A t \in Tasks : ~SweepStep(t) /\ ~InsertStep(t)) =>
            \/ \A k \in Keys : SameAt(k)
            \/ \E k \in DOMAIN cache :
                   k \notin DOMAIN cache' /\ \A j \in Keys \ {k} : SameAt(j)
            \/ DOMAIN cache' = {}]_vars

\* a get has just swept: the entry set with a ttl under one key is gone, and
\* an entry with a later expiry under another key is still there
C22_Witness ==
    \E t \in Tasks, k \in Keys, j \in Keys :
        /\ cpc[t] = "swept"
        /\ k # j
        /\ written[k].state = "set" /\ written[k].ttl # <<>>
        /\ k \notin DOMAIN cache
        /\ j \in DOMAIN cache
        /\ cache[j].expires_at # <<>>
        /\ cache[j].expires_at[1] > got[t].t1

(***************************************************************************)
(* Properties of FunctionRegistry and SurrealX::build                      *)
(***************************************************************************)

\* C5: register on a FunctionRegistry whose map is shared returns a typed
\* error to the caller: it does not panic or abort the calling task.
C5_SharedRegisterTypedError ==
    regOutcome \notin {"none", "ok"} =>
        regOutcome = "error" /\ phase # "panicked"

\* C6: once build has returned, no operation on the built snapshot changes
\* the function registry's name-to-handler mapping.
C6_FrozenAfterBuild == [][Built => functions' = functions]_vars

\* the largest element of a set of numbers
Max(S) == CHOOSE x \in S : \A y \in S : y <= x

\* the handler of the most recent pair of h registered under the name n
LastRegistered(h, n) ==
    LET at == {i \in 1..Len(h) : h[i].name = n}
    IN IF at = {} THEN <<>> ELSE <<h[Max(at)].handler>>

\* the names of the pairs of h
NamesOf(h) == {h[i].name : i \in 1..Len(h)}

\* the elements of the sequence sq
Range(sq) == {sq[i] : i \in 1..Len(sq)}

\* C7: after any sequence of successful register calls, get(n) is the
\* handler of the most recent register of n (none if there was none),
\* contains(n) holds exactly when get(n) is present, and list() holds
\* exactly the distinct registered names, each once.
C7_GetReturnsLastRegistered ==
    /\ \A n \in FnNames \cup DirectNames \cup NamesOf(history) \cup DOMAIN functions :
          /\ Get(functions, n) = LastRegistered(history, n)
          /\ Contains(functions, n) <=> Get(functions, n) # <<>>
    /\ Range(List(functions)) = NamesOf(history)
    /\ Len(List(functions)) = Cardinality(NamesOf(history))

\* a direct register has replaced the handler build had stored for the name
C7_Witness ==
    /\ phase = "running"
    /\ regOutcome = "ok"
    /\ \E i \in 1..Len(history) :
          /\ i < Len(history)
          /\ history[i].name = history[Len(history)].name
          /\ history[i].handler # history[Len(history)].handler
          /\ Get(functions, history[i].name) = <<history[Len(history)].handler>>

\* the positions (module, declaration) of the function declarations
FnDecls ==
    UNION {{<<i, j>> : j \in 1..Len(modules[i].functions)} : i \in 1..Len(modules)}

\* the declaration at a position
FnDecl(ij) == modules[ij[1]].functions[ij[2]]

\* position a comes before position b in (module order, declaration order)
Before(a, b) == a[1] < b[1] \/ (a[1] = b[1] /\ a[2] < b[2])

\* C8: when declarations share a name, build succeeds and the registry
\* holds exactly one entry for "ext::"+name, whose handler is the one
\* declared last in (module order, declaration order).
C8_LastDeclarationWins ==
    /\ phase = "panicked" => regOutcome = "panic"
    /\ phase = "built" =>
          \A ij \in FnDecls :
              (\A kl \in FnDecls : Before(ij, kl) => FnDecl(kl).name # FnDecl(ij).name)
              => /\ Get(functions, "ext::" \o FnDecl(ij).name) = <<FnDecl(ij).handler>>
                 /\ Count(List(functions), "ext::" \o FnDecl(ij).name) = 1

\* two modules declared the same name and the later module's handler is stored
C8_Witness ==
    /\ phase = "built"
    /\ \E ij \in FnDecls, kl \in FnDecls :
          /\ ij[1] < kl[1]
          /\ FnDecl(ij).name = FnDecl(kl).name
          /\ Get(functions, "ext::" \o FnDecl(kl).name) = <<FnDecl(kl).handler>>

\* C9: after build the registry's keys are exactly the declared names with
\* "ext::" in front, and a declared bare name is a key only if it is itself
\* some declared name with "ext::" in front.
C9_KeysArePrefixed ==
    phase = "built" =>
        LET keys == {"ext::" \o FnDecl(ij).name : ij \in FnDecls}
        IN /\ DOMAIN functions = keys
           /\ Range(List(functions)) = keys
           /\ \A ij \in FnDecls :
                 Contains(functions, FnDecl(ij).name) =>
                     \E kl \in FnDecls :
                         FnDecl(ij).name = "ext::" \o FnDecl(kl).name

\* "f" was declared and is reachable as "ext::f" but not as "f"
C9_Witness ==
    /\ phase = "built"
    /\ \E ij \in FnDecls : FnDecl(ij).name = "f"
    /\ Get(functions, "ext::f") # <<>>
    /\ Get(functions, "f") = <<>>

\* the listeners of the declarations ls made under the pattern p, in order
ListenersFor(ls, p) ==
    LET sel == SelectSeq(ls, LAMBDA d : d.pattern = p)
    IN [i \in 1..Len(sel) |-> sel[i].listener]

RECURSIVE DeclaredFor(_, _)
\* the listeners the modules ms declare under the pattern p, module by module
DeclaredFor(ms, p) ==
    IF ms = <<>> THEN <<>>
    ELSE ListenersFor(Head(ms).listeners, p) \o DeclaredFor(Tail(ms), p)

\* C10: after build the list stored for each pattern is the concatenation,
\* in module order and then declaration order, of the listeners the modules
\* declared under exactly that pattern string.
C10_ListenersVerbatimInOrder ==
    phase = "built" =>
        /\ \A p \in Patterns \cup DOMAIN listeners :
              DeclaredFor(modules, p) =
                  IF p \in DOMAIN listeners THEN listeners[p] ELSE <<>>
        /\ \A p \in DOMAIN listeners : listeners[p] # <<>>

\* two modules declared a listener under one pattern: the list holds the
\* first module's listener, then the second's
C10_Witness ==
    /\ phase = "built"
    /\ Len(modules) = 2
    /\ \E p \in DOMAIN listeners :
          /\ Len(listeners[p]) = 2
          /\ modules[1].listeners # <<>> /\ modules[2].listeners # <<>>
          /\ listeners[p][1] = modules[1].listeners[1].listener
          /\ listeners[p][2] = modules[2].listeners[1].listener

====
